---- MODULE Spec2Model ----
\* QuADS optimisation loop (models/amp_sim/quads.py): run_quads and its two
\* samplers, get_samples_classical and get_samples_grover.
EXTENDS Integers, Sequences, FiniteSets, TLC

\* ---------------------------------------------------------------- bounds
MaxIter == 2
MaxSamples == 2

\* ---------------------------------------------------------------- program constants
\* n_parallel = 100 (quads.py:47)
n_parallel == 100
\* min_val = np.inf (quads.py:91): a number above every objective value of the model
Inf == 1000000

\* ---------------------------------------------------------------- inputs
\* Sample points (one-dimensional, n_dim = 1) and the objective handed to run_quads.
Points == 0..3
target == 0
func(x) == (x - target) * (x - target)
\* np.linalg.norm(accepted - target, axis=1) for one point
norm_to_target(x) == IF x >= target THEN x - target ELSE target - x

Thresholds == {1, 4}
StepSizes == {1, 2}
SamplerTypes == {"classical", "quantum", "annealing"}
EvalLimits == {-1, n_parallel, 2 * n_parallel} \cup {n - 1 : n \in 1..MaxSamples}
LoopEvalLimits == {n_parallel - 1}
TerminateEps == {0, 1}
TerminateStepSizes == {2}
InitStepSizes == {1}
OracleCosts == {1, 2}

\* A point no threshold of the model accepts: the value of the draws that are not varied.
RejectedPoint == CHOOSE x \in Points : \A t \in Thresholds : ~(func(x) < t)
\* Positions of a batch whose draw is varied (first, second, last).
VariedPos == {1, 2, n_parallel}
\* get_normal_samples(..., n_parallel, ...): one batch of n_parallel draws
Batches ==
  { [p \in 1..n_parallel |-> IF p \in VariedPos THEN f[p] ELSE RejectedPoint] :
      f \in [VariedPos -> Points] }

VARIABLES
  config,            \* the config dict
  init_param,        \* run_quads' init_param argument
  quads_param,       \* run_quads: quads_param
  eval_num_hist, param_hist, min_func_hist, dist_target_hist,
  min_val,           \* run_quads: min_val
  i,                 \* run_quads: loop index
  pc,                \* position in run_quads: "loop", "classical", "grover", "returned", "done", "error"
  outcome,           \* "Running", "Converged", "TimedOut", "Exhausted", "NotImplementedError"
  n_sampled, n_eval, accepted, accepted_val,   \* the running sampler's locals
  ret_cost,          \* third value the sampler returned
  g_calls,           \* get_samples_grover: iterations of its for loop done
  \* history variables (not program state)
  acc_log,           \* every accepted draw of the running classical call: <<position, point>>
  n_batches,         \* batches the running classical call evaluated
  oracle_log,        \* results of the oracle calls of the running quantum call
  snap,              \* distribution state and histories when the iteration began
  acc_val_hist,      \* accepted_val of every completed iteration
  n_updates,         \* calls of update_quads_params
  n_returns,         \* sampler calls that returned
  eq_seen            \* the running classical call drew a point whose value equals the threshold

vars == <<config, init_param, quads_param, eval_num_hist, param_hist, min_func_hist,
          dist_target_hist, min_val, i, pc, outcome, n_sampled, n_eval, accepted,
          accepted_val, ret_cost, g_calls, acc_log, n_batches, oracle_log, snap,
          acc_val_hist, n_updates, n_returns, eq_seen>>

hists == <<eval_num_hist, param_hist, min_func_hist, dist_target_hist>>
locals == <<n_sampled, n_eval, accepted, accepted_val, ret_cost, g_calls>>
ghosts == <<acc_log, n_batches, oracle_log, eq_seen>>

\* ---------------------------------------------------------------- helpers
Min(S) == CHOOSE x \in S : \A y \in S : x <= y
Range(s) == {s[k] : k \in DOMAIN s}
\* s[:k] of a sequence
Take(s, k) == IF k >= Len(s) THEN s ELSE SubSeq(s, 1, k)
\* np.sort of a set of integers, as a sequence
RECURSIVE Sort(_)
Sort(S) == IF S = {} THEN <<>> ELSE <<Min(S)>> \o Sort(S \ {Min(S)})
\* mutant: the comparison admits a value equal to the threshold
AcceptFlagLeq(func_val, threshold) == [p \in DOMAIN func_val |-> func_val[p] <= threshold]
\* func_val < threshold, elementwise
AcceptFlag(func_val, threshold) == [p \in DOMAIN func_val |-> func_val[p] < threshold]
\* np.count_nonzero(accept_flag)
CountNonzero(flag) == Cardinality({p \in DOMAIN flag : flag[p]})
\* np.where(accept_flag)[0]: the 0-based indices of the true entries
Where(flag) == {p - 1 : p \in {q \in DOMAIN flag : flag[q]}}
\* a[accept_flag]: boolean-mask selection, order kept
Mask(a, flag) ==
  LET idx == SelectSeq([p \in 1..Len(a) |-> p], LAMBDA p : flag[p])
  IN  [k \in 1..Len(idx) |-> a[idx[k]]]
\* python min(a, b)
PyMin(a, b) == IF b < a THEN b ELSE a

\* n_eval_estimated = (optimal_amplify_num(n_samples / n_eval) + 1) * n_samples:
\* the arccos/arcsin quotient is kept symbolic, as a term over its two integer inputs.
EstimatedCost(n_samples, e) == <<"estimated", n_samples, e>>
ActualCost(e) == <<"actual", e>>

\* ---------------------------------------------------------------- collaborators
\* sampling_grover_oracle(func, ..., threshold, ..., oracle_eval_limit): one point below
\* the threshold, its value and the evaluations used, never more than the limit.
OracleResults(threshold, limit) ==
  { <<x, func(x), c>> : x \in {q \in Points : func(q) < threshold},
                        c \in {d \in OracleCosts : d <= limit} }
\* update_quads_params(accepted, accepted_val, i, quads_param, hp): the threshold moves
\* from the previous one toward the best accepted value, the step size stays positive.
UpdateQuadsParams(acc, acc_val, iter, qp) ==
  { [threshold |-> t, step_size |-> s] :
      t \in {u \in Thresholds : Min(Range(acc_val)) <= u /\ u <= qp.threshold},
      s \in StepSizes }

\* ---------------------------------------------------------------- get_samples_classical
\* mutant: the completing batch is counted whole
CompletingEvalsWholeBatch(accept_flag, n_samples, sampled) == n_parallel
\* np.sort(np.where(accept_flag)[0])[n_samples-n_sampled-1]+1
CompletingEvals(accept_flag, n_samples, sampled) ==
  Sort(Where(accept_flag))[(n_samples - sampled - 1) + 1] + 1
\* accept_num + n_sampled >= n_samples
BatchCompletes(accept_num, sampled, n_samples) == accept_num + sampled >= n_samples
\* mutant: the ceiling itself already aborts
CeilingExceededGeq(evals, cfg) == evals >= cfg.eval_limit_one_sample
\* n_eval > config["eval_limit_one_sample"]
CeilingExceeded(evals, cfg) == evals > cfg.eval_limit_one_sample
\* the accepted draws of a batch in draw order, with their position in the whole call
AcceptedDraws(sample, threshold, base) ==
  SelectSeq([p \in 1..Len(sample) |-> <<base + p, sample[p]>>],
            LAMBDA d : func(d[2]) < threshold)

\* ---------------------------------------------------------------- run_quads
\* mutant: both conditions are required
TerminateBoth(dist_target, qp, cfg) ==
  dist_target < cfg.terminate_eps /\ qp.step_size < cfg.terminate_step_size
\* dist_target < terminate_eps or step_size < terminate_step_size
Terminate(dist_target, qp, cfg) ==
  dist_target < cfg.terminate_eps \/ qp.step_size < cfg.terminate_step_size
\* mutant: the minimum of this iteration alone
NextMinValThisIter(mv, acc_val) == Min(Range(acc_val))
\* min(min_val, np.min(accepted_val))
NextMinVal(mv, acc_val) == PyMin(mv, Min(Range(acc_val)))
\* np.min(np.linalg.norm(accepted - target, axis=1))
DistTarget(acc) == Min({norm_to_target(x) : x \in Range(acc)})

\* The state after run_quads' prologue (lines 82-91), for a config of the set cfgs.
InitWith(cfgs) ==
  /\ config \in cfgs
  /\ init_param \in [threshold : Thresholds, step_size : InitStepSizes]
  /\ quads_param = init_param
  /\ eval_num_hist = <<>>
  /\ param_hist = <<init_param>>
  /\ min_func_hist = <<>>
  /\ dist_target_hist = <<>>
  /\ min_val = Inf
  /\ i = 0
  /\ pc = "loop"
  /\ outcome = "Running"
  /\ n_sampled = 0 /\ n_eval = 0 /\ accepted = <<>> /\ accepted_val = <<>>
  /\ ret_cost = <<>> /\ g_calls = 0
  /\ acc_log = <<>> /\ n_batches = 0 /\ oracle_log = <<>>
  /\ snap = <<init_param, <<<<>>, <<init_param>>, <<>>, <<>>>>>>
  /\ acc_val_hist = <<>>
  /\ n_updates = 0
  /\ n_returns = 0
  /\ eq_seen = FALSE

\* Runs of up to MaxIter iterations, every sampler call under one ceiling.
LoopConfigs ==
  [sampler_type : SamplerTypes, n_samples : 1..MaxSamples, max_iter : 0..MaxIter,
   eval_limit_one_sample : LoopEvalLimits, terminate_eps : TerminateEps,
   terminate_step_size : TerminateStepSizes]
\* Runs of one iteration, the sampler call under every ceiling.
SamplerConfigs ==
  [sampler_type : SamplerTypes, n_samples : 1..MaxSamples, max_iter : {1},
   eval_limit_one_sample : EvalLimits, terminate_eps : TerminateEps,
   terminate_step_size : TerminateStepSizes]

Init == InitWith(LoopConfigs)
InitSampler == InitWith(SamplerConfigs)

\* the sampler's locals and the values run_quads unpacked from it are dead once the
\* histories are written: they are cleared, as at the start of the next sampler call
ResetLocals ==
  /\ n_sampled' = 0 /\ n_eval' = 0 /\ accepted' = <<>> /\ accepted_val' = <<>>
  /\ ret_cost' = <<>> /\ g_calls' = 0
  /\ acc_log' = <<>> /\ n_batches' = 0 /\ oracle_log' = <<>> /\ eq_seen' = FALSE

\* for i in range(max_iter): sampler_type == "quantum" -> get_samples_grover begins
EnterQuantum ==
  /\ pc = "loop" /\ i < config.max_iter
  /\ config.sampler_type = "quantum"
  /\ pc' = "grover"
  /\ ResetLocals
  /\ snap' = <<quads_param, hists>>
  /\ UNCHANGED <<config, init_param, quads_param, hists, min_val, i, outcome,
                 acc_val_hist, n_updates, n_returns>>

\* sampler_type == "classical" -> get_samples_classical begins
EnterClassical ==
  /\ pc = "loop" /\ i < config.max_iter
  /\ config.sampler_type = "classical"
  /\ pc' = "classical"
  /\ ResetLocals
  /\ snap' = <<quads_param, hists>>
  /\ UNCHANGED <<config, init_param, quads_param, hists, min_val, i, outcome,
                 acc_val_hist, n_updates, n_returns>>

\* else: raise NotImplementedError (not caught by "except TimeoutError")
RaiseNotImplemented ==
  /\ pc = "loop" /\ i < config.max_iter
  /\ config.sampler_type \notin {"quantum", "classical"}
  /\ pc' = "error"
  /\ outcome' = "NotImplementedError"
  /\ UNCHANGED <<config, init_param, quads_param, hists, min_val, i, locals, ghosts,
                 snap, acc_val_hist, n_updates, n_returns>>

\* range(max_iter) is used up: the loop ends and run_quads returns
LoopExhausted ==
  /\ pc = "loop" /\ ~(i < config.max_iter)
  /\ pc' = "done"
  /\ outcome' = "Exhausted"
  /\ UNCHANGED <<config, init_param, quads_param, hists, min_val, i, locals, ghosts,
                 snap, acc_val_hist, n_updates, n_returns>>

\* one pass of "while n_sampled < n_samples" in get_samples_classical
ClassicalBatch ==
  /\ pc = "classical" /\ n_sampled < config.n_samples
  /\ \E sample \in Batches :
       LET n_samples   == config.n_samples
           func_val    == [p \in DOMAIN sample |-> func(sample[p])]
           accept_flag == AcceptFlag(func_val, quads_param.threshold)
           accept_num  == CountNonzero(accept_flag)
       IN
       /\ acc_log' = acc_log \o AcceptedDraws(sample, quads_param.threshold,
                                               n_batches * n_parallel)
       /\ n_batches' = n_batches + 1
       /\ eq_seen' = (eq_seen \/ \E p \in DOMAIN sample : func(sample[p]) = quads_param.threshold)
       /\ IF BatchCompletes(accept_num, n_sampled, n_samples)
          THEN \* break, then p = n_samples / n_eval and return
               /\ n_eval' = n_eval + CompletingEvals(accept_flag, n_samples, n_sampled)
               /\ accepted' = accepted \o Take(Mask(sample, accept_flag), n_samples - n_sampled)
               /\ accepted_val' =
                    accepted_val \o Take(Mask(func_val, accept_flag), n_samples - n_sampled)
               /\ n_sampled' = n_sampled
               /\ ret_cost' = EstimatedCost(n_samples, n_eval')
               /\ pc' = "returned"
               /\ outcome' = outcome
               /\ n_returns' = n_returns + 1
          ELSE /\ n_eval' = n_eval + n_parallel
               /\ n_sampled' = n_sampled + accept_num
               /\ accepted' = accepted \o Mask(sample, accept_flag)
               /\ accepted_val' = accepted_val \o Mask(func_val, accept_flag)
               /\ ret_cost' = ret_cost
               /\ n_returns' = n_returns
               /\ IF CeilingExceeded(n_eval', config)
                  THEN \* raise TimeoutError; run_quads: except TimeoutError: break
                       pc' = "done" /\ outcome' = "TimedOut"
                  ELSE pc' = "classical" /\ outcome' = outcome
  /\ UNCHANGED <<config, init_param, quads_param, hists, min_val, i, g_calls,
                 oracle_log, snap, acc_val_hist, n_updates>>

\* mutant: n_eval = eval_num instead of n_eval += eval_num
GroverCallLastCost ==
  /\ pc = "grover" /\ g_calls < config.n_samples
  /\ \E r \in OracleResults(quads_param.threshold, config.eval_limit_one_sample) :
       /\ n_eval' = r[3]
       /\ accepted' = Append(accepted, r[1])
       /\ accepted_val' = Append(accepted_val, r[2])
       /\ oracle_log' = Append(oracle_log, r)
       /\ g_calls' = g_calls + 1
       /\ IF g_calls + 1 < config.n_samples
          THEN pc' = "grover" /\ ret_cost' = ret_cost /\ n_returns' = n_returns
          ELSE pc' = "returned" /\ ret_cost' = ActualCost(n_eval')
               /\ n_returns' = n_returns + 1
  /\ UNCHANGED <<config, init_param, quads_param, hists, min_val, i, outcome, n_sampled,
                 acc_log, n_batches, eq_seen, snap, acc_val_hist, n_updates>>

\* one pass of "for _ in range(n_samples)" in get_samples_grover: the oracle returns
GroverCall ==
  /\ pc = "grover" /\ g_calls < config.n_samples
  /\ \E r \in OracleResults(quads_param.threshold, config.eval_limit_one_sample) :
       /\ n_eval' = n_eval + r[3]
       /\ accepted' = Append(accepted, r[1])
       /\ accepted_val' = Append(accepted_val, r[2])
       /\ oracle_log' = Append(oracle_log, r)
       /\ g_calls' = g_calls + 1
       /\ IF g_calls + 1 < config.n_samples
          THEN pc' = "grover" /\ ret_cost' = ret_cost /\ n_returns' = n_returns
          ELSE pc' = "returned" /\ ret_cost' = ActualCost(n_eval')
               /\ n_returns' = n_returns + 1
  /\ UNCHANGED <<config, init_param, quads_param, hists, min_val, i, outcome, n_sampled,
                 acc_log, n_batches, eq_seen, snap, acc_val_hist, n_updates>>

\* mutant: the handler records the evaluations spent before it breaks
GroverTimeoutRecords ==
  /\ pc = "grover" /\ g_calls < config.n_samples
  /\ pc' = "done"
  /\ outcome' = "TimedOut"
  /\ eval_num_hist' = Append(eval_num_hist, ActualCost(n_eval))
  /\ UNCHANGED <<config, init_param, quads_param, param_hist, min_func_hist,
                 dist_target_hist, min_val, i, locals, ghosts, snap, acc_val_hist,
                 n_updates, n_returns>>

\* the oracle raises TimeoutError; run_quads: except TimeoutError: break
GroverTimeout ==
  /\ pc = "grover" /\ g_calls < config.n_samples
  /\ pc' = "done"
  /\ outcome' = "TimedOut"
  /\ UNCHANGED <<config, init_param, quads_param, hists, min_val, i, locals, ghosts,
                 snap, acc_val_hist, n_updates, n_returns>>

\* mutant: the updated state is not appended to param_hist
UpdateNoParamHist ==
  /\ pc = "returned"
  /\ \E np \in UpdateQuadsParams(accepted, accepted_val, i, quads_param) :
       LET dist_target == DistTarget(accepted) IN
       /\ quads_param' = np
       /\ min_val' = NextMinVal(min_val, accepted_val)
       /\ param_hist' = param_hist
       /\ min_func_hist' = Append(min_func_hist, min_val')
       /\ dist_target_hist' = Append(dist_target_hist, dist_target)
       /\ eval_num_hist' = Append(eval_num_hist, ret_cost)
       /\ IF Terminate(dist_target, np, config)
          THEN pc' = "done" /\ outcome' = "Converged" /\ i' = i
          ELSE pc' = "loop" /\ outcome' = outcome /\ i' = i + 1
  /\ acc_val_hist' = Append(acc_val_hist, accepted_val)
  /\ n_updates' = n_updates + 1
  /\ ResetLocals
  /\ UNCHANGED <<config, init_param, snap, n_returns>>

\* the rest of the loop body: update_quads_params, the histories, the termination test
Update ==
  /\ pc = "returned"
  /\ \E np \in UpdateQuadsParams(accepted, accepted_val, i, quads_param) :
       LET dist_target == DistTarget(accepted) IN
       /\ quads_param' = np
       /\ min_val' = NextMinVal(min_val, accepted_val)
       /\ param_hist' = Append(param_hist, np)
       /\ min_func_hist' = Append(min_func_hist, min_val')
       /\ dist_target_hist' = Append(dist_target_hist, dist_target)
       /\ eval_num_hist' = Append(eval_num_hist, ret_cost)
       /\ IF Terminate(dist_target, np, config)
          THEN pc' = "done" /\ outcome' = "Converged" /\ i' = i
          ELSE pc' = "loop" /\ outcome' = outcome /\ i' = i + 1
  /\ acc_val_hist' = Append(acc_val_hist, accepted_val)
  /\ n_updates' = n_updates + 1
  /\ ResetLocals
  /\ UNCHANGED <<config, init_param, snap, n_returns>>

Next ==
  \/ EnterQuantum
  \/ EnterClassical
  \/ RaiseNotImplemented
  \/ LoopExhausted
  \/ ClassicalBatch
  \/ GroverCall
  \/ GroverTimeout
  \/ Update

Spec == Init /\ [][Next]_vars
SpecSampler == InitSampler /\ [][Next]_vars

\* ---------------------------------------------------------------- properties
Classical == config.sampler_type = "classical"
Quantum == config.sampler_type = "quantum"
Supported == config.sampler_type \in {"classical", "quantum"}
N == config.n_samples
Ceiling == config.eval_limit_one_sample
\* iterations whose histories are written
Completed == Len(eval_num_hist)

\* C1: when get_samples_classical returns it returns exactly N points and N values,
\* every value strictly below the threshold, and the points are the first N accepted
\* draws in draw order over all batches; the call goes on (or times out) only while
\* fewer than N draws have been accepted.
C1_ClassicalReturnsFirstNAccepted ==
  Classical =>
    /\ pc = "returned" =>
         /\ Len(accepted) = N /\ Len(accepted_val) = N
         /\ \A k \in 1..N : accepted_val[k] < quads_param.threshold
         /\ Len(acc_log) >= N
         /\ \A k \in 1..N : accepted[k] = acc_log[k][2] /\ accepted_val[k] = func(acc_log[k][2])
    /\ (pc = "classical" \/ outcome = "TimedOut") => Len(acc_log) < N
\* a return whose N accepts span two batches, the last batch holding more accepts than
\* needed, after a draw whose value equals the threshold
C1_Witness ==
  /\ Classical /\ pc = "returned" /\ N = 2 /\ n_batches = 2
  /\ Len(acc_log) > N /\ eq_seen /\ accepted[1] # accepted[2]

\* C2: when get_samples_classical returns, E (n_eval where p = N/E is computed) is the
\* 1-based position, over all batches of 100, of the draw that gave the N-th accept;
\* so E >= N and E >= 1.
C2_EvalCountIsPositionOfNthAccept ==
  (Classical /\ pc = "returned") =>
    /\ Len(acc_log) >= N
    /\ n_eval = acc_log[N][1]
    /\ n_eval > (n_batches - 1) * n_parallel /\ n_eval <= n_batches * n_parallel
    /\ n_eval >= N /\ n_eval >= 1
    /\ ret_cost = EstimatedCost(N, n_eval)
\* the N-th accept is the second draw of the second batch
C2_Witness ==
  Classical /\ pc = "returned" /\ N = 2 /\ n_eval = n_parallel + 2

\* C3: no sampler call returns after more evaluations than the ceiling
\* eval_limit_one_sample; stated for ceilings of at least one batch, where the N-th
\* accept can lie in the batch that crosses the ceiling.
C3_NeverReturnsOverCeiling ==
  (pc = "returned" /\ Ceiling >= n_parallel) => n_eval <= Ceiling

\* C4: when the sampler call of iteration k times out, run_quads stops there: no update
\* for iteration k, nothing appended, no further step, and the distribution state and
\* the four histories are those of the end of iteration k-1.
C4_TimeoutKeepsPriorIteration ==
  outcome = "TimedOut" =>
    /\ pc = "done" /\ ~ENABLED Next
    /\ <<quads_param, hists>> = snap
    /\ n_updates = i /\ Completed = i
    /\ Len(min_func_hist) = i /\ Len(dist_target_hist) = i /\ Len(param_hist) = i + 1
    /\ quads_param = param_hist[i + 1]
    /\ i = 0 => (quads_param = init_param /\ hists = <<<<>>, <<init_param>>, <<>>, <<>>>>)
\* the quantum sampler times out in the second iteration after an oracle call succeeded
C4_Witness ==
  outcome = "TimedOut" /\ Quantum /\ i = 1 /\ g_calls >= 1

\* C5: with an unsupported sampler_type run_quads never returns a result: it raises
\* NotImplementedError before any sampler call, update or history append.
C5_UnsupportedSamplerAlwaysRaises ==
  ~Supported =>
    /\ pc \in {"loop", "error"}
    /\ pc = "loop" => outcome = "Running"
    /\ n_returns = 0 /\ n_updates = 0 /\ Completed = 0

\* the stop condition of completed iteration k (1-based), from the histories
StopAt(k) ==
  \/ dist_target_hist[k] < config.terminate_eps
  \/ param_hist[k + 1].step_size < config.terminate_step_size

\* C6: without a sampler timeout the loop completes exactly min(max_iter, k*+1)
\* iterations, k* the first iteration whose batch is nearer the target than
\* terminate_eps or whose updated step size is below terminate_step_size.
C6_StopsAtFirstConvergedIteration ==
  /\ pc \in {"loop", "classical", "grover", "returned"} =>
       /\ \A k \in 1..Completed : ~StopAt(k)
       /\ Completed <= config.max_iter
       /\ pc # "loop" => Completed < config.max_iter
  /\ outcome = "Converged" =>
       /\ Completed >= 1 /\ Completed <= config.max_iter
       /\ StopAt(Completed)
       /\ \A k \in 1..(Completed - 1) : ~StopAt(k)
  /\ outcome = "Exhausted" =>
       /\ Completed = config.max_iter
       /\ \A k \in 1..Completed : ~StopAt(k)
\* converged in the second iteration, by the step size alone
C6_Witness ==
  /\ outcome = "Converged" /\ Completed = 2
  /\ ~(dist_target_hist[2] < config.terminate_eps)

\* C7: entry k of the min-objective history is the minimum objective value over all
\* samples accepted in iterations 0..k, so the history is non-increasing.
C7_MinHistIsRunningMinimum ==
  /\ Len(min_func_hist) = Len(acc_val_hist)
  /\ \A k \in 1..Len(min_func_hist) :
       /\ min_func_hist[k] = Min(UNION {Range(acc_val_hist[j]) : j \in 1..k})
       /\ k > 1 => min_func_hist[k] <= min_func_hist[k - 1]
\* the second iteration's own minimum is above the running minimum
C7_Witness ==
  /\ Len(min_func_hist) = 2
  /\ Min(Range(acc_val_hist[2])) > min_func_hist[2]

RECURSIVE SumCosts(_)
SumCosts(log) == IF log = <<>> THEN 0 ELSE log[1][3] + SumCosts(Tail(log))

\* C8: when no oracle call times out get_samples_grover calls the oracle exactly N
\* times, returns the N points and values in call order and reports the sum of the
\* evaluation counts of the N calls: N * c when every call reports c.
C8_GroverCostIsSumOfCalls ==
  (Quantum /\ pc = "returned") =>
    /\ Len(oracle_log) = N /\ g_calls = N
    /\ accepted = [k \in 1..N |-> oracle_log[k][1]]
    /\ accepted_val = [k \in 1..N |-> oracle_log[k][2]]
    /\ n_eval = SumCosts(oracle_log)
    /\ ret_cost = ActualCost(n_eval)
    /\ \A c \in OracleCosts :
         (\A k \in 1..N : oracle_log[k][3] = c) => n_eval = N * c
\* two calls of different cost and different points
C8_Witness ==
  /\ Quantum /\ pc = "returned" /\ N = 2
  /\ oracle_log[1][3] # oracle_log[2][3] /\ oracle_log[1][1] # oracle_log[2][1]

\* C9 as stated: a classical call that never reaches N accepts raises TimeoutError
\* after floor(ceiling/100)+1 batches, for every ceiling.
C9_TimeoutAfterFloorPlusOneBatches ==
  (Classical /\ outcome = "TimedOut") => n_batches = (Ceiling \div n_parallel) + 1

BatchesToTimeout ==
  IF (Ceiling \div n_parallel) + 1 < 1 THEN 1 ELSE (Ceiling \div n_parallel) + 1

\* C9 amended: a classical call that never reaches N accepts raises TimeoutError after
\* max(1, floor(ceiling/100)+1) batches (one batch when the ceiling is negative), never
\* evaluating more; with ceiling = N-1 < 100 it raises after its first batch.
C9_TimeoutAfterBoundedBatches ==
  Classical =>
    /\ outcome = "TimedOut" => (n_batches = BatchesToTimeout /\ Len(acc_log) < N)
    /\ pc = "classical" => n_batches < BatchesToTimeout
    /\ (Ceiling = N - 1 /\ n_batches >= 1 /\ Len(acc_log) < N) => outcome = "TimedOut"
\* a timeout after three batches in which one draw was accepted
C9_Witness ==
  Classical /\ outcome = "TimedOut" /\ n_batches = 3 /\ Len(acc_log) = 1 /\ N = 2

\* C10: at every iteration boundary and in every terminal outcome the three scalar
\* histories have length k, the number of completed iterations, the parameter history
\* has length k+1, begins with the caller's initial state and ends with the current
\* state; one update and one entry per history per sampler call that returned.
C10_HistoriesAligned ==
  pc \in {"loop", "done"} =>
    LET k == IF outcome = "Converged" THEN i + 1 ELSE i IN
    /\ Len(min_func_hist) = k /\ Len(eval_num_hist) = k /\ Len(dist_target_hist) = k
    /\ Len(param_hist) = k + 1
    /\ param_hist[1] = init_param
    /\ param_hist[Len(param_hist)] = quads_param
    /\ n_updates = k /\ n_returns = k
    /\ outcome = "Exhausted" => k = config.max_iter
\* converged after two iterations that changed the distribution state
C10_Witness ==
  /\ pc = "done" /\ outcome = "Converged" /\ Completed = 2
  /\ quads_param # init_param

====
